---- MODULE Spec2Model ----
(***************************************************************************)
(* Distributed training / evaluation control loop of                       *)
(* src/flan_pubmed_src/pretrain.py: Trainer.train, Trainer.test,           *)
(* Trainer.evaluate_epoch and the main_worker orchestration.               *)
(*                                                                         *)
(* Every process of the process group runs the same code.  A process is at *)
(* a code position pc[p]; the positions named barrier_<line> are the       *)
(* dist.barrier() calls of the source, "reduce" and "new_reduce" are the   *)
(* two collective reductions.  Between two synchronisation points a        *)
(* process only touches its own state, so each such segment is one action. *)
(*                                                                         *)
(* Text is modelled as a sequence of characters (target and predicted      *)
(* text, template ids, categories) so that lower() and endswith() are      *)
(* computed; dictionary keys built with f-strings are sequences of their   *)
(* pieces (f'{task}_loss' is <<task, "_loss">>).                            *)
(***************************************************************************)
EXTENDS Integers, Sequences, FiniteSets, TLC

VARIABLES
    args,           \* the parsed arguments: epoch, gradient_accumulation_steps,
                    \* fp16, world_size, lr, train, inference
    lr_scheduler,   \* whether create_optimizer_and_scheduler gave a scheduler
    train_len,      \* len(self.train_loader), the same on every process
    val_list,       \* the task -> template groups handed to Trainer
    val_loader,     \* per process: the sequence of validation batches
    pc,             \* per process: code position
    epoch,          \* per process: loop variable of train() / test(), -1 before
    step_i,         \* per process: enumerate() index of the batch loop, -1 before
    global_step,    \* per process: global_step of train()
    grads,          \* per process: backward passes held in param.grad
    results,        \* per process: the local `results` of train()
    epoch_results,  \* per process: epoch_results of train()
    losses_str,     \* per process: the epoch summary last printed
    ACC,            \* per process: ACC of evaluate_epoch()
    valid_results,  \* per process: valid_results of test()
    ckpt_path,      \* per process: ckpt_path of test()
    loaded,         \* per process: every path given to load_checkpoint
    saved,          \* every torch.save so far, in order: the checkpoint files
    acc_file,       \* the lines of flan_pubmed.txt
    acc_by,         \* the process that appended each report record
    optim_log,      \* per process: every optimizer step taken
    sched_steps     \* per process: number of lr_scheduler.step() calls

vars == <<args, lr_scheduler, train_len, val_list, val_loader, pc, epoch, step_i,
          global_step, grads, results, epoch_results, losses_str, ACC,
          valid_results, ckpt_path, loaded, saved, acc_file, acc_by, optim_log,
          sched_steps>>

(***************************************************************************)
(* Bounds of the model.                                                    *)
(***************************************************************************)
MaxEpoch == 2
MaxTrainLen == 8
MaxGas == 3
MaxProcs == 2
SchedTotal == 100
MaxExamples == 3
MaxEvalProcs == 3

(***************************************************************************)
(* Generic helpers.                                                        *)
(***************************************************************************)
RECURSIVE Flatten(_)
Flatten(ss) == IF ss = << >> THEN << >> ELSE Head(ss) \o Flatten(Tail(ss))

Range(s) == {s[i] : i \in DOMAIN s}

Procs == 0 .. (args.world_size - 1)

(***************************************************************************)
(* Text: str.lower() and str.endswith().                                   *)
(***************************************************************************)
UpperCase == <<"A","B","C","D","E","F","G","H","I","J","K","L","M",
               "N","O","P","Q","R","S","T","U","V","W","X","Y","Z">>
LowerCase == <<"a","b","c","d","e","f","g","h","i","j","k","l","m",
               "n","o","p","q","r","s","t","u","v","w","x","y","z">>

LowerChar(c) ==
    IF \E i \in DOMAIN UpperCase : UpperCase[i] = c
    THEN LowerCase[CHOOSE i \in DOMAIN UpperCase : UpperCase[i] = c]
    ELSE c

Lower(s) == [i \in DOMAIN s |-> LowerChar(s[i])]

EndsWith(s, suffix) ==
    /\ Len(s) >= Len(suffix)
    /\ SubSeq(s, Len(s) - Len(suffix) + 1, Len(s)) = suffix

transductive == <<"t","r","a","n","s","d","u","c","t","i","v","e">>

TemplateId(a, b, c, d) == <<a, "-", b, "-", c, "-", d>>

(***************************************************************************)
(* Module-level flags, lines 23-26.                                        *)
(***************************************************************************)
_use_native_amp == TRUE
_use_apex == FALSE

\* The lead process: rank 0.
Lead == 0

\* TrainerBase sets verbose on the lead process only.
verbose(p) == p = Lead

(***************************************************************************)
(* Loss names: args.losses split, and LOSSES_NAME of __main__.             *)
(***************************************************************************)
losses == <<"link", "classification">>

LOSSES_NAME == [i \in 1 .. Len(losses) |-> <<losses[i], "_loss">>] \o << <<"total", "_loss">> >>

CountKey(name) == name \o <<"_count">>

(***************************************************************************)
(* The training batch source (pretrain_data.get_loader): batch step_i of   *)
(* epoch e on process p.  A training example carries its task tag, its     *)
(* loss weight and the per-example loss the forward pass yields for it     *)
(* (line 154).                                                             *)
(***************************************************************************)
TrainData ==
    << << [task |-> "link", weight |-> 1, loss |-> 2],
          [task |-> "classification", weight |-> 2, loss |-> 1] >>,
       << [task |-> "link", weight |-> 1, loss |-> 3] >>,
       << [task |-> "classification", weight |-> 1, loss |-> 1],
          [task |-> "classification", weight |-> 1, loss |-> 2],
          [task |-> "link", weight |-> 2, loss |-> 1] >> >>

TrainBatch(p, e, i) == TrainData[((p + e + i) % Len(TrainData)) + 1]

(***************************************************************************)
(* Lines 156-172: the per-step results of one batch.                       *)
(***************************************************************************)
TaskIdx(batch, task) == {i \in DOMAIN batch : batch[i].task = task}

RECURSIVE SumOver(_, _, _)
SumOver(batch, idx, weighted) ==
    IF idx = {} THEN 0
    ELSE LET i == CHOOSE j \in idx : TRUE
         IN  (IF weighted THEN batch[i].loss * batch[i].weight ELSE batch[i].loss)
             + SumOver(batch, idx \ {i}, weighted)

StepResults(batch) ==
    LET present == {t \in Range(losses) : Cardinality(TaskIdx(batch, t)) > 0}
        keys == {<<"loss">>, <<"total", "_loss">>, <<"total", "_loss", "_count">>}
                \cup {<<t, "_loss">> : t \in present}
                \cup {<<t, "_loss", "_count">> : t \in present}
    IN  [k \in keys |->
            IF k = <<"loss">>
                THEN <<SumOver(batch, DOMAIN batch, TRUE), Len(batch)>>
            ELSE IF k = <<"total", "_loss">>
                THEN SumOver(batch, DOMAIN batch, FALSE)
            ELSE IF k = <<"total", "_loss", "_count">>
                THEN Len(batch)
            ELSE IF Len(k) = 2
                THEN SumOver(batch, TaskIdx(batch, k[1]), FALSE)
            ELSE Cardinality(TaskIdx(batch, k[1]))]

\* Lines 117-120.
FreshEpochResults ==
    LET keys == Range(LOSSES_NAME) \cup {CountKey(n) : n \in Range(LOSSES_NAME)}
    IN  [k \in keys |-> 0]

\* A merge that overwrites the entry instead of adding to it.
MergeResults_Overwrite(er, r) ==
    [k \in DOMAIN er |-> IF k \in DOMAIN r THEN r[k] ELSE er[k]]

\* Lines 244-249: merge the step's results into epoch_results.
MergeResults(er, r) ==
    [k \in DOMAIN er |-> IF k \in DOMAIN r THEN er[k] + r[k] ELSE er[k]]

(***************************************************************************)
(* Checkpoint names and the mid-epoch schedule, lines 211-232 in the order *)
(* of the source: global_step == len(train_loader)*num//den saves <tag>.   *)
(***************************************************************************)
CkptName(ep, tag) == <<"flan_pubmed", ep, args.lr, 8, args.train, tag>>

\* The schedule with the tags of the half and the quarter exchanged.
MidSchedule_Swapped ==
    << [tag |-> "mid1",  num |-> 1, den |-> 2],
       [tag |-> "mid2",  num |-> 1, den |-> 4],
       [tag |-> "mid3",  num |-> 3, den |-> 4],
       [tag |-> "mmid1", num |-> 1, den |-> 8],
       [tag |-> "mmid2", num |-> 3, den |-> 8],
       [tag |-> "mmid3", num |-> 5, den |-> 8],
       [tag |-> "mend",  num |-> 7, den |-> 8] >>

MidSchedule ==
    << [tag |-> "mid2",  num |-> 1, den |-> 2],
       [tag |-> "mid1",  num |-> 1, den |-> 4],
       [tag |-> "mid3",  num |-> 3, den |-> 4],
       [tag |-> "mmid1", num |-> 1, den |-> 8],
       [tag |-> "mmid2", num |-> 3, den |-> 8],
       [tag |-> "mmid3", num |-> 5, den |-> 8],
       [tag |-> "mend",  num |-> 7, den |-> 8] >>

\* A schedule that floors the eighth (quarter, half) before multiplying.
SaveDue_FloorFirst(entry, gs, len) == gs = (len \div entry.den) * entry.num

SaveDue(entry, gs, len) == gs = (len * entry.num) \div entry.den

\* A schedule tested as an if/elif chain: only the first due tag is saved.
DueTags_FirstOnly(gs, len) ==
    LET due == SelectSeq(MidSchedule, LAMBDA entry : SaveDue(entry, gs, len))
    IN  [i \in (DOMAIN due) \cap {1} |-> due[i].tag]

DueTags(gs, len) ==
    LET due == SelectSeq(MidSchedule, LAMBDA entry : SaveDue(entry, gs, len))
    IN  [i \in DOMAIN due |-> due[i].tag]

\* A save that is not guarded by self.verbose.
SaveGuard_Unguarded(p) == TRUE

SaveGuard(p) == verbose(p)

SaveRecords(p, ep, gs, tags) ==
    IF SaveGuard(p)
    THEN [i \in DOMAIN tags |->
            [path |-> CkptName(ep + 1, tags[i]), by |-> p, epoch |-> ep,
             step |-> gs, tag |-> tags[i]]]
    ELSE << >>

Files == {saved[i].path : i \in DOMAIN saved}

\* An update test with a window one step longer than configured.
UpdateDue_LongWindow(i, gas) == i % (gas + 1) = 0

\* Line 187: the step on which the parameters are updated.
UpdateDue(i, gas) == i % gas = 0

(***************************************************************************)
(* Trainer.train                                                           *)
(***************************************************************************)
\* An epoch loop that creates the epoch results once and keeps them across
\* epochs.
EpochLoop_KeepsResults(p) ==
    /\ pc[p] = "epoch_loop"
    /\ IF epoch[p] + 1 < args.epoch
       THEN /\ epoch' = [epoch EXCEPT ![p] = epoch[p] + 1]
            /\ global_step' = [global_step EXCEPT ![p] = 0]
            /\ epoch_results' = [epoch_results EXCEPT ![p] =
                    IF @ = << >> THEN FreshEpochResults ELSE @]
            /\ step_i' = [step_i EXCEPT ![p] = -1]
            /\ pc' = [pc EXCEPT ![p] = "train_loop"]
       ELSE /\ pc' = [pc EXCEPT ![p] = "done"]
            /\ UNCHANGED <<epoch, global_step, epoch_results, step_i>>
    /\ UNCHANGED <<args, lr_scheduler, train_len, val_list, val_loader, grads,
                   results, losses_str, ACC, valid_results, ckpt_path, loaded, saved,
                   acc_file, acc_by, optim_log, sched_steps>>

\* Lines 105-120: next epoch, or return.
EpochLoop(p) ==
    /\ pc[p] = "epoch_loop"
    /\ IF epoch[p] + 1 < args.epoch
       THEN /\ epoch' = [epoch EXCEPT ![p] = epoch[p] + 1]
            /\ global_step' = [global_step EXCEPT ![p] = 0]
            /\ epoch_results' = [epoch_results EXCEPT ![p] = FreshEpochResults]
            /\ step_i' = [step_i EXCEPT ![p] = -1]
            /\ pc' = [pc EXCEPT ![p] = "train_loop"]
       ELSE /\ pc' = [pc EXCEPT ![p] = "done"]
            /\ UNCHANGED <<epoch, global_step, epoch_results, step_i>>
    /\ UNCHANGED <<args, lr_scheduler, train_len, val_list, val_loader, grads,
                   results, losses_str, ACC, valid_results, ckpt_path, loaded, saved,
                   acc_file, acc_by, optim_log, sched_steps>>

\* Lines 122-125 and 266-269: next batch, or leave the batch loop.
TrainLoop(p) ==
    /\ pc[p] = "train_loop"
    /\ IF step_i[p] + 1 < train_len
       THEN /\ step_i' = [step_i EXCEPT ![p] = step_i[p] + 1]
            /\ pc' = [pc EXCEPT ![p] = "barrier_125"]
       ELSE /\ pc' = [pc EXCEPT ![p] = "barrier_269"]
            /\ UNCHANGED step_i
    /\ UNCHANGED <<args, lr_scheduler, train_len, val_list, val_loader, epoch,
                   global_step, grads, results, epoch_results, losses_str, ACC,
                   valid_results, ckpt_path, loaded, saved, acc_file, acc_by, optim_log,
                   sched_steps>>

\* Lines 127-174: the forward pass and the scaled loss.  With fp16 and the
\* native amp flag the branch is `pass`, and `results` keeps what it held.
Forward(p) ==
    /\ pc[p] = "forward"
    /\ LET r == IF args.fp16 /\ _use_native_amp
                THEN results[p]
                ELSE StepResults(TrainBatch(p, epoch[p], step_i[p]))
       IN  /\ results' = [results EXCEPT ![p] = r]
           /\ pc' = [pc EXCEPT ![p] =
                        IF <<"loss">> \in DOMAIN r THEN "barrier_175" ELSE "crashed"]
    /\ UNCHANGED <<args, lr_scheduler, train_len, val_list, val_loader, epoch,
                   step_i, global_step, grads, epoch_results, losses_str, ACC,
                   valid_results, ckpt_path, loaded, saved, acc_file, acc_by, optim_log,
                   sched_steps>>

\* Lines 176-232: backward, the parameter update, and the mid-epoch saves.
\* Gradient clipping (lines 189-196) changes no state kept here.
Backward(p) ==
    /\ pc[p] = "backward"
    /\ LET held == grads[p] + 1
           gs   == global_step[p] + 1
       IN  /\ IF UpdateDue(step_i[p], args.gradient_accumulation_steps)
              THEN /\ optim_log' = [optim_log EXCEPT ![p] =
                          Append(@, [epoch |-> epoch[p], step_i |-> step_i[p],
                                     passes |-> held])]
                   /\ sched_steps' = [sched_steps EXCEPT ![p] =
                          IF lr_scheduler THEN @ + 1 ELSE @]
                   /\ grads' = [grads EXCEPT ![p] = 0]
              ELSE /\ grads' = [grads EXCEPT ![p] = held]
                   /\ UNCHANGED <<optim_log, sched_steps>>
           /\ global_step' = [global_step EXCEPT ![p] = gs]
           /\ saved' = saved \o
                 (IF epoch[p] > -1
                  THEN SaveRecords(p, epoch[p], gs, DueTags(gs, train_len))
                  ELSE << >>)
    /\ pc' = [pc EXCEPT ![p] = "barrier_234"]
    /\ UNCHANGED <<args, lr_scheduler, train_len, val_list, val_loader, epoch,
                   step_i, results, epoch_results, losses_str, ACC,
                   valid_results, ckpt_path, loaded, acc_file, acc_by>>

\* Lines 236-263: merge the step's results into the epoch's.
Accumulate(p) ==
    /\ pc[p] = "accumulate"
    /\ epoch_results' = [epoch_results EXCEPT ![p] = MergeResults(@, results[p])]
    /\ pc' = [pc EXCEPT ![p] = "barrier_264"]
    /\ UNCHANGED <<args, lr_scheduler, train_len, val_list, val_loader, epoch,
                   step_i, global_step, grads, results, losses_str, ACC,
                   valid_results, ckpt_path, loaded, saved, acc_file, acc_by, optim_log,
                   sched_steps>>


(***************************************************************************)
(* dist_utils.reduce_dict / new_reduce_dict: the element-wise sum of the   *)
(* processes' dictionaries, combined in the order the collective happens   *)
(* to take.                                                                *)
(***************************************************************************)
Orders == {o \in [1 .. args.world_size -> Procs] :
              \A i, j \in 1 .. args.world_size : i # j => o[i] # o[j]}

AddDict(a, b) == [k \in DOMAIN a |-> a[k] + b[k]]

RECURSIVE ReduceFrom(_, _, _)
ReduceFrom(dicts, order, i) ==
    IF i = 1 THEN dicts[order[1]]
    ELSE AddDict(ReduceFrom(dicts, order, i - 1), dicts[order[i]])

reduce_dict(dicts, order) == ReduceFrom(dicts, order, Len(order))

\* Line 271: results = reduce_dict(epoch_results, average=False).
Reduce ==
    /\ \A p \in Procs : pc[p] = "reduce"
    /\ \E order \in Orders :
          results' = [p \in Procs |-> reduce_dict(epoch_results, order)]
    /\ pc' = [p \in Procs |-> "barrier_273"]
    /\ UNCHANGED <<args, lr_scheduler, train_len, val_list, val_loader, epoch,
                   step_i, global_step, grads, epoch_results, losses_str, ACC,
                   valid_results, ckpt_path, loaded, saved, acc_file, acc_by, optim_log,
                   sched_steps>>

\* Line 280: train_loss / train_loss_count on the reduced results.  With a
\* zero count the operands are the numbers of lines 119-120 and the division
\* raises ZeroDivisionError.
TrainLossRaises(r) == r[<<"total", "_loss", "_count">>] = 0

\* Lines 277-290: the text of the epoch summary.  An average is kept as
\* <<sum, count>>; the first entry is divided without a test of its count,
\* the named entries only with a positive count.
EpochSummary(r) ==
    LET named == SelectSeq(LOSSES_NAME, LAMBDA name : r[CountKey(name)] > 0)
    IN  << <<"Train Loss", r[<<"total", "_loss">>], r[<<"total", "_loss", "_count">>]>> >>
        \o [i \in DOMAIN named |-> <<named[i], r[named[i]], r[CountKey(named[i])]>>]

\* The barrier of line 293 moved inside the lead-only logging block.
Log_BarrierInLeadBlock(p) ==
    /\ pc[p] = "log"
    /\ IF verbose(p) /\ TrainLossRaises(results[p])
       THEN /\ pc' = [pc EXCEPT ![p] = "crashed"]
            /\ UNCHANGED losses_str
       ELSE /\ losses_str' = [losses_str EXCEPT ![p] =
                    IF verbose(p) THEN EpochSummary(results[p]) ELSE @]
            /\ pc' = [pc EXCEPT ![p] =
                        IF verbose(p) THEN "barrier_293" ELSE "save_end"]
    /\ UNCHANGED <<args, lr_scheduler, train_len, val_list, val_loader, epoch,
                   step_i, global_step, grads, results, epoch_results, ACC,
                   valid_results, ckpt_path, loaded, saved, acc_file, acc_by, optim_log,
                   sched_steps>>

\* Lines 276-291: the lead process prints the epoch summary, or raises at
\* line 280 when the epoch had no example.
Log(p) ==
    /\ pc[p] = "log"
    /\ IF verbose(p) /\ TrainLossRaises(results[p])
       THEN /\ pc' = [pc EXCEPT ![p] = "crashed"]
            /\ UNCHANGED losses_str
       ELSE /\ losses_str' = [losses_str EXCEPT ![p] =
                    IF verbose(p) THEN EpochSummary(results[p]) ELSE @]
            /\ pc' = [pc EXCEPT ![p] = "barrier_293"]
    /\ UNCHANGED <<args, lr_scheduler, train_len, val_list, val_loader, epoch,
                   step_i, global_step, grads, results, epoch_results, ACC,
                   valid_results, ckpt_path, loaded, saved, acc_file, acc_by, optim_log,
                   sched_steps>>

\* The end-of-epoch checkpoint without the barrier of line 299 after it.
SaveEnd_NoBarrier(p) ==
    /\ pc[p] = "save_end"
    /\ saved' = saved \o
          (IF epoch[p] > -1
           THEN SaveRecords(p, epoch[p], global_step[p], <<"end">>)
           ELSE << >>)
    /\ pc' = [pc EXCEPT ![p] = "epoch_loop"]
    /\ UNCHANGED <<args, lr_scheduler, train_len, val_list, val_loader, epoch,
                   step_i, global_step, grads, results, epoch_results,
                   losses_str, ACC, valid_results, ckpt_path, loaded, acc_file, acc_by,
                   optim_log, sched_steps>>

\* Lines 295-296: the end-of-epoch checkpoint.
SaveEnd(p) ==
    /\ pc[p] = "save_end"
    /\ saved' = saved \o
          (IF epoch[p] > -1
           THEN SaveRecords(p, epoch[p], global_step[p], <<"end">>)
           ELSE << >>)
    /\ pc' = [pc EXCEPT ![p] = "barrier_299"]
    /\ UNCHANGED <<args, lr_scheduler, train_len, val_list, val_loader, epoch,
                   step_i, global_step, grads, results, epoch_results,
                   losses_str, ACC, valid_results, ckpt_path, loaded, acc_file, acc_by,
                   optim_log, sched_steps>>

(***************************************************************************)
(* dist.barrier(): every process of the group has to call it; the calls    *)
(* are matched by arrival, not by the line they are made from.  Each       *)
(* process then goes on from its own barrier.                              *)
(***************************************************************************)
AfterBarrier ==
    [b \in {"barrier_103", "barrier_125", "barrier_175", "barrier_234",
            "barrier_264", "barrier_269", "barrier_273", "barrier_293",
            "barrier_299", "barrier_326", "barrier_329", "barrier_342",
            "barrier_357", "barrier_384"} |->
        CASE b = "barrier_103" -> "epoch_loop"
          [] b = "barrier_125" -> "forward"
          [] b = "barrier_175" -> "backward"
          [] b = "barrier_234" -> "accumulate"
          [] b = "barrier_264" -> "train_loop"
          [] b = "barrier_269" -> "reduce"
          [] b = "barrier_273" -> "log"
          [] b = "barrier_293" -> "save_end"
          [] b = "barrier_299" -> "epoch_loop"
          [] b = "barrier_326" -> "new_reduce"
          [] b = "barrier_329" -> "normalize"
          [] b = "barrier_342" -> "report"
          [] b = "barrier_357" -> "test_loop"
          [] b = "barrier_384" -> "eval_loop"]

\* A barrier that is released without the processes that raised.
Barrier_SkipsCrashed ==
    /\ \A p \in Procs : pc[p] \in DOMAIN AfterBarrier \cup {"crashed"}
    /\ \E p \in Procs : pc[p] \in DOMAIN AfterBarrier
    /\ pc' = [p \in Procs |->
                IF pc[p] = "crashed" THEN "crashed" ELSE AfterBarrier[pc[p]]]
    /\ UNCHANGED <<args, lr_scheduler, train_len, val_list, val_loader, epoch,
                   step_i, global_step, grads, results, epoch_results,
                   losses_str, ACC, valid_results, ckpt_path, loaded, saved, acc_file,
                   acc_by, optim_log, sched_steps>>

Barrier ==
    /\ \A p \in Procs : pc[p] \in DOMAIN AfterBarrier
    /\ pc' = [p \in Procs |-> AfterBarrier[pc[p]]]
    /\ UNCHANGED <<args, lr_scheduler, train_len, val_list, val_loader, epoch,
                   step_i, global_step, grads, results, epoch_results,
                   losses_str, ACC, valid_results, ckpt_path, loaded, saved, acc_file,
                   acc_by, optim_log, sched_steps>>


(***************************************************************************)
(* The validation source.  An example carries its task tag, template id,   *)
(* category, raw target text, and the text g_step decodes for it.          *)
(***************************************************************************)
\* main_worker, lines 428-430.
val_task_list ==
    [k \in {"classification"} |->
        << <<TemplateId("6","6","6","6"), TemplateId("6","6","6","7")>>,
           <<TemplateId("2","1","2","2"), TemplateId("2","1","2","4"),
             TemplateId("2","3","2","2"), TemplateId("2","3","2","4")>>,
           <<TemplateId("2","1","3","2"), TemplateId("2","1","3","4"),
             TemplateId("2","3","3","2"), TemplateId("2","3","3","4")>>,
           <<TemplateId("2","1","1","2"), TemplateId("2","3","1","2")>> >>]

ExHit ==
    [task |-> "classification", temp_ids |-> TemplateId("2","1","2","2"),
     cate |-> transductive, target_text |-> <<"y","e","s">>,
     pred |-> <<"Y","e","s">>]
ExMiss ==
    [task |-> "classification", temp_ids |-> TemplateId("2","1","2","2"),
     cate |-> transductive, target_text |-> <<"y","e","s">>,
     pred |-> <<"n","o">>]
ExUpperTarget ==
    [task |-> "classification", temp_ids |-> TemplateId("6","6","6","7"),
     cate |-> transductive, target_text |-> <<"Y","e","s">>,
     pred |-> <<"y","e","s">>]
ExOtherTemplate ==
    [task |-> "classification", temp_ids |-> TemplateId("2","1","2","1"),
     cate |-> transductive, target_text |-> <<"y","e","s">>,
     pred |-> <<"y","e","s">>]
ExLink ==
    [task |-> "link", temp_ids |-> TemplateId("1","3","1","2"),
     cate |-> transductive, target_text |-> <<"y","e","s">>,
     pred |-> <<"y","e","s">>]
ExInductive ==
    [task |-> "classification", temp_ids |-> TemplateId("2","1","2","2"),
     cate |-> <<"i","n","d">>, target_text |-> <<"n","o">>,
     pred |-> <<"n","o">>]

\* The examples of `split` owned by process p, in batches of batch_size.
Owned(split, owner, p) ==
    LET idx == SelectSeq([i \in DOMAIN split |-> i], LAMBDA i : owner[i] = p)
    IN  [j \in DOMAIN idx |-> split[idx[j]]]

Batches(examples, batch_size) ==
    [b \in 1 .. ((Len(examples) + batch_size - 1) \div batch_size) |->
        SubSeq(examples, (b - 1) * batch_size + 1,
               IF b * batch_size < Len(examples) THEN b * batch_size
                                                 ELSE Len(examples))]

Loader(split, owner, batch_size, world_size) ==
    [p \in 0 .. (world_size - 1) |-> Batches(Owned(split, owner, p), batch_size)]

\* The whole split, as the examples every process's loader holds together.
ValExamples == Flatten([i \in 1 .. args.world_size |-> Flatten(val_loader[i - 1])])

\* val_loader.dataset.len_transductive
len_transductive == 1000

(***************************************************************************)
(* Trainer.evaluate_epoch                                                  *)
(***************************************************************************)
CounterKey(temp_id, cate) == temp_id \o <<"-">> \o cate

\* Lines 361-369.
DeclaredCounters(vl) ==
    LET templates == IF "classification" \in DOMAIN vl /\ args.train = "PubMed"
                     THEN Range(Flatten(vl["classification"]))
                     ELSE {}
    IN  [k \in {CounterKey(thing, transductive) : thing \in templates} |-> 0]

\* A suffix test that also takes template ids ending in 1.
SuffixScored_WithOne(temp_id) ==
    \/ EndsWith(temp_id, <<"1">>) \/ EndsWith(temp_id, <<"2">>)
    \/ EndsWith(temp_id, <<"4">>) \/ EndsWith(temp_id, <<"6">>)
    \/ EndsWith(temp_id, <<"7">>)

\* Line 381.
SuffixScored(temp_id) ==
    \/ EndsWith(temp_id, <<"2">>) \/ EndsWith(temp_id, <<"4">>)
    \/ EndsWith(temp_id, <<"6">>) \/ EndsWith(temp_id, <<"7">>)

\* Line 382.
TextMatch(pred, target_text) == Lower(pred) = target_text

\* Lines 377-383: does the example reach the increment of line 383.
Scores(ex) ==
    /\ ex.task = "classification"
    /\ SuffixScored(ex.temp_ids)
    /\ TextMatch(ex.pred, ex.target_text)

\* Scoring that sets the counter to one instead of adding one.
RECURSIVE ScoreBatch_SetsOne(_, _, _)
ScoreBatch_SetsOne(acc, batch, i) ==
    IF i > Len(batch) THEN [ACC |-> acc, error |-> FALSE]
    ELSE IF ~Scores(batch[i]) THEN ScoreBatch_SetsOne(acc, batch, i + 1)
    ELSE LET key == CounterKey(batch[i].temp_ids, batch[i].cate)
         IN  IF key \in DOMAIN acc
             THEN ScoreBatch_SetsOne([acc EXCEPT ![key] = 1], batch, i + 1)
             ELSE [ACC |-> acc, error |-> TRUE]

\* Lines 376-383 over one batch, from example i on: the counters, and
\* whether line 383 raised KeyError.
RECURSIVE ScoreBatch(_, _, _)
ScoreBatch(acc, batch, i) ==
    IF i > Len(batch) THEN [ACC |-> acc, error |-> FALSE]
    ELSE IF ~Scores(batch[i]) THEN ScoreBatch(acc, batch, i + 1)
    ELSE LET key == CounterKey(batch[i].temp_ids, batch[i].cate)
         IN  IF key \in DOMAIN acc
             THEN ScoreBatch([acc EXCEPT ![key] = @ + 1], batch, i + 1)
             ELSE [ACC |-> acc, error |-> TRUE]

\* Lines 372-386: score the next batch, or return ACC.
EvalLoop(p) ==
    /\ pc[p] = "eval_loop"
    /\ IF step_i[p] + 1 < Len(val_loader[p])
       THEN LET out == ScoreBatch(ACC[p], val_loader[p][step_i[p] + 2], 1)
            IN  /\ step_i' = [step_i EXCEPT ![p] = step_i[p] + 1]
                /\ ACC' = [ACC EXCEPT ![p] = out.ACC]
                /\ pc' = [pc EXCEPT ![p] =
                            IF out.error THEN "crashed" ELSE "barrier_384"]
                /\ UNCHANGED valid_results
       ELSE /\ valid_results' = [valid_results EXCEPT ![p] = ACC[p]]
            /\ pc' = [pc EXCEPT ![p] = "barrier_326"]
            /\ UNCHANGED <<step_i, ACC>>
    /\ UNCHANGED <<args, lr_scheduler, train_len, val_list, val_loader, epoch,
                   global_step, grads, results, epoch_results, losses_str,
                   ckpt_path, loaded, saved, acc_file, acc_by, optim_log, sched_steps>>

(***************************************************************************)
(* Trainer.test                                                            *)
(***************************************************************************)
\* Lines 305-316 and 346-353: the phase tag of slot e.
SlotTag(e) ==
    CASE (e + 1) % 4 = 1 -> "mid1"
      [] (e + 1) % 4 = 2 -> "mid2"
      [] (e + 1) % 4 = 3 -> "mid3"
      [] OTHER -> "end"

\* A path that takes the slot index for the epoch.
SlotPath_SlotAsEpoch(e) == CkptName(e + 1, SlotTag(e))

SlotPath(e) == CkptName(e \div 4 + 1, SlotTag(e))

\* A label that names the epoch from zero.
SlotLabel_ZeroBased(e) == <<e \div 4, "_" \o SlotTag(e)>>

SlotLabel(e) == <<e \div 4 + 1, "_" \o SlotTag(e)>>

\* TrainerBase.load_checkpoint: the file has to exist.
CheckpointExists(path) == path \in Files

\* Lines 304-325 and 361-371: next slot (load its checkpoint and start the
\* evaluation pass), or return.
TestLoop(p) ==
    /\ pc[p] = "test_loop"
    /\ IF epoch[p] + 1 < 4 * args.epoch
       THEN /\ epoch' = [epoch EXCEPT ![p] = epoch[p] + 1]
            /\ ckpt_path' = [ckpt_path EXCEPT ![p] = SlotPath(epoch[p] + 1)]
            /\ loaded' = [loaded EXCEPT ![p] = Append(@, SlotPath(epoch[p] + 1))]
            /\ IF CheckpointExists(SlotPath(epoch[p] + 1))
               THEN /\ ACC' = [ACC EXCEPT ![p] = DeclaredCounters(val_list)]
                    /\ step_i' = [step_i EXCEPT ![p] = -1]
                    /\ pc' = [pc EXCEPT ![p] = "eval_loop"]
               ELSE /\ pc' = [pc EXCEPT ![p] = "crashed"]
                    /\ UNCHANGED <<ACC, step_i>>
       ELSE /\ pc' = [pc EXCEPT ![p] = "done"]
            /\ UNCHANGED <<epoch, ckpt_path, loaded, ACC, step_i>>
    /\ UNCHANGED <<args, lr_scheduler, train_len, val_list, val_loader,
                   global_step, grads, results, epoch_results, losses_str,
                   valid_results, saved, acc_file, acc_by, optim_log,
                   sched_steps>>

\* Line 328: valid_results = new_reduce_dict(valid_results).
NewReduce ==
    /\ \A p \in Procs : pc[p] = "new_reduce"
    /\ \E order \in Orders :
          valid_results' = [p \in Procs |-> reduce_dict(valid_results, order)]
    /\ pc' = [p \in Procs |-> "barrier_329"]
    /\ UNCHANGED <<args, lr_scheduler, train_len, val_list, val_loader, epoch,
                   step_i, global_step, grads, results, epoch_results,
                   losses_str, ACC, ckpt_path, loaded, saved, acc_file, acc_by,
                   optim_log, sched_steps>>

\* Lines 334-337: a quotient is kept as <<count, denominator>>.
Normalized(vr) ==
    [kk \in DOMAIN vr |->
        IF EndsWith(kk, transductive) /\ args.train = "PubMed"
        THEN <<vr[kk], len_transductive>>
        ELSE vr[kk]]

\* Lines 331-340.
Normalize(p) ==
    /\ pc[p] = "normalize"
    /\ valid_results' = [valid_results EXCEPT ![p] =
            IF verbose(p) THEN Normalized(@) ELSE @]
    /\ pc' = [pc EXCEPT ![p] = "barrier_342"]
    /\ UNCHANGED <<args, lr_scheduler, train_len, val_list, val_loader, epoch,
                   step_i, global_step, grads, results, epoch_results,
                   losses_str, ACC, ckpt_path, loaded, saved, acc_file, acc_by,
                   optim_log, sched_steps>>

ReportGuard(p) == verbose(p)

\* Lines 346-355: the label line, the counters line, the blank line.
ReportLines(e, vr) == << SlotLabel(e), <<vr>>, << >> >>

\* Lines 344-356.
Report(p) ==
    /\ pc[p] = "report"
    /\ IF ReportGuard(p)
       THEN /\ acc_file' = acc_file \o ReportLines(epoch[p], valid_results[p])
            /\ acc_by' = Append(acc_by, p)
       ELSE UNCHANGED <<acc_file, acc_by>>
    /\ pc' = [pc EXCEPT ![p] = "barrier_357"]
    /\ UNCHANGED <<args, lr_scheduler, train_len, val_list, val_loader, epoch,
                   step_i, global_step, grads, results, epoch_results,
                   losses_str, ACC, valid_results, ckpt_path, loaded, saved, optim_log,
                   sched_steps>>

(***************************************************************************)
(* main_worker: a training run (args.inference unset), and after it an     *)
(* inference run over the checkpoints the training run left.               *)
(***************************************************************************)
Fresh(ws) ==
    /\ epoch = [p \in 0 .. (ws - 1) |-> -1]
    /\ step_i = [p \in 0 .. (ws - 1) |-> -1]
    /\ global_step = [p \in 0 .. (ws - 1) |-> 0]
    /\ grads = [p \in 0 .. (ws - 1) |-> 0]
    /\ results = [p \in 0 .. (ws - 1) |-> << >>]
    /\ epoch_results = [p \in 0 .. (ws - 1) |-> << >>]
    /\ losses_str = [p \in 0 .. (ws - 1) |-> << >>]
    /\ ACC = [p \in 0 .. (ws - 1) |-> << >>]
    /\ valid_results = [p \in 0 .. (ws - 1) |-> << >>]
    /\ ckpt_path = [p \in 0 .. (ws - 1) |-> << >>]
    /\ loaded = [p \in 0 .. (ws - 1) |-> << >>]
    /\ acc_file = << >>
    /\ acc_by = << >>
    /\ optim_log = [p \in 0 .. (ws - 1) |-> << >>]
    /\ sched_steps = [p \in 0 .. (ws - 1) |-> 0]

Strided(n, ws) == [i \in 1 .. n |-> (i - 1) % ws]

ValSplit == <<ExHit, ExUpperTarget>>

\* lines 399-422: a training run.
Init ==
    /\ args \in [epoch : 1 .. MaxEpoch,
                 gradient_accumulation_steps : 1 .. MaxGas,
                 fp16 : BOOLEAN,
                 world_size : 1 .. MaxProcs,
                 lr : {"lr"}, train : {"PubMed"}, inference : {FALSE}]
    /\ lr_scheduler \in BOOLEAN
    /\ train_len \in 0 .. MaxTrainLen
    /\ val_list = val_task_list
    /\ val_loader = Loader(ValSplit, Strided(Len(ValSplit), args.world_size), 1,
                           args.world_size)
    /\ pc = [p \in Procs |-> "barrier_103"]
    /\ saved = << >>
    /\ Fresh(args.world_size)

\* lines 425-447: the inference run that follows a training run.
Relaunch ==
    /\ ~args.inference
    /\ \A p \in Procs : pc[p] = "done"
    /\ args' = [args EXCEPT !.inference = TRUE]
    /\ pc' = [p \in Procs |-> "test_loop"]
    /\ epoch' = [p \in Procs |-> -1]
    /\ step_i' = [p \in Procs |-> -1]
    /\ UNCHANGED <<lr_scheduler, train_len, val_list, val_loader, global_step,
                   grads, results, epoch_results, losses_str, ACC,
                   valid_results, ckpt_path, loaded, saved, acc_file, acc_by, optim_log,
                   sched_steps>>

NextTrain ==
    \/ \E p \in Procs : EpochLoop(p)
    \/ \E p \in Procs : TrainLoop(p)
    \/ \E p \in Procs : Forward(p)
    \/ \E p \in Procs : Backward(p)
    \/ \E p \in Procs : Accumulate(p)
    \/ Reduce
    \/ \E p \in Procs : Log(p)
    \/ \E p \in Procs : SaveEnd(p)
    \/ Barrier

NextTest ==
    \/ \E p \in Procs : TestLoop(p)
    \/ \E p \in Procs : EvalLoop(p)
    \/ NewReduce
    \/ \E p \in Procs : Normalize(p)
    \/ \E p \in Procs : Report(p)
    \/ Barrier

Next ==
    \/ \E p \in Procs : EpochLoop(p)
    \/ \E p \in Procs : TrainLoop(p)
    \/ \E p \in Procs : Forward(p)
    \/ \E p \in Procs : Backward(p)
    \/ \E p \in Procs : Accumulate(p)
    \/ Reduce
    \/ \E p \in Procs : Log(p)
    \/ \E p \in Procs : SaveEnd(p)
    \/ Barrier
    \/ Relaunch
    \/ \E p \in Procs : TestLoop(p)
    \/ \E p \in Procs : EvalLoop(p)
    \/ NewReduce
    \/ \E p \in Procs : Normalize(p)
    \/ \E p \in Procs : Report(p)

Spec == Init /\ [][Next]_vars


(***************************************************************************)
(* A single-process training run of one epoch, over epoch lengths up to    *)
(* SchedTotal: the checkpoint schedule on long epochs.                     *)
(***************************************************************************)
InitSched ==
    /\ args \in [epoch : {1}, gradient_accumulation_steps : {1},
                 fp16 : BOOLEAN, world_size : {1},
                 lr : {"lr"}, train : {"PubMed"}, inference : {FALSE}]
    /\ lr_scheduler = TRUE
    /\ train_len \in 1 .. SchedTotal
    /\ val_list = val_task_list
    /\ val_loader = Loader(ValSplit, Strided(Len(ValSplit), 1), 1, 1)
    /\ pc = [p \in Procs |-> "barrier_103"]
    /\ saved = << >>
    /\ Fresh(1)

SpecSched == InitSched /\ [][NextTrain]_vars

(***************************************************************************)
(* An inference run over the checkpoints of a completed one-epoch training *)
(* run: the split, its partition among the processes, the batch size and   *)
(* the process count vary.                                                 *)
(***************************************************************************)
\* What a completed train() of N epochs of len steps leaves, lines 210-232
\* and 295-296 on the lead process.
RECURSIVE StepSaves(_, _, _)
StepSaves(e, gs, len) ==
    IF gs = 0 THEN << >>
    ELSE StepSaves(e, gs - 1, len) \o SaveRecords(0, e, gs, DueTags(gs, len))

RECURSIVE CompletedTrainSaves(_, _)
CompletedTrainSaves(N, len) ==
    IF N = 0 THEN << >>
    ELSE CompletedTrainSaves(N - 1, len) \o StepSaves(N - 1, len, len)
         \o SaveRecords(0, N - 1, len, <<"end">>)

ExHit7 ==
    [task |-> "classification", temp_ids |-> TemplateId("6","6","6","7"),
     cate |-> transductive, target_text |-> <<"n","o">>,
     pred |-> <<"N","O">>]

ExamplePool == {ExHit, ExMiss, ExInductive}

BatchSizes == {1, 2}

\* Consecutive chunks of the split, one (possibly empty) per process.
Chunked(n, ws) ==
    {o \in [1 .. n -> 0 .. (ws - 1)] : \A i, j \in 1 .. n : i <= j => o[i] <= o[j]}

InitEval ==
    /\ args \in [epoch : {1}, gradient_accumulation_steps : {1},
                 fp16 : {FALSE}, world_size : 1 .. MaxEvalProcs,
                 lr : {"lr"}, train : {"PubMed"}, inference : {TRUE}]
    /\ lr_scheduler = TRUE
    /\ train_len = 4
    /\ val_list = val_task_list
    /\ \E n \in 1 .. MaxExamples :
          \E split \in [1 .. n -> ExamplePool] :
             \E owner \in Chunked(n, args.world_size) :
                \E batch_size \in BatchSizes :
                   val_loader = Loader(split, owner, batch_size, args.world_size)
    /\ pc = [p \in Procs |-> "test_loop"]
    /\ saved = CompletedTrainSaves(args.epoch, train_len)
    /\ Fresh(args.world_size)

SpecEval == InitEval /\ [][NextTest]_vars

(***************************************************************************)
(* Properties.                                                             *)
(***************************************************************************)
\* The step fractions of the checkpoint schedule, as <<numerator, denominator>>.
Fractions == {<<1, 8>>, <<1, 4>>, <<3, 8>>, <<1, 2>>, <<5, 8>>, <<3, 4>>, <<7, 8>>}

FractionStep(total, f) == (total * f[1]) \div f[2]

\* The steps of epoch e the lead process has completed.
StepsDone(e) ==
    IF e < epoch[Lead] THEN 1 .. train_len
    ELSE IF e = epoch[Lead] THEN 1 .. global_step[Lead]
    ELSE {}

\* The lead process is past line 296 of epoch e.
EndDone(e) ==
    \/ e < epoch[Lead]
    \/ e = epoch[Lead] /\ pc[Lead] \in {"barrier_299", "epoch_loop", "done"}

MidSaves(e) == {i \in DOMAIN saved : saved[i].epoch = e /\ saved[i].tag # "end"}
EndSaves(e) == {i \in DOMAIN saved : saved[i].epoch = e /\ saved[i].tag = "end"}

\* C1: in a training epoch of `total` steps counted 1..total, the lead
\* process saves a mid-epoch checkpoint at step s exactly when
\* s = floor(total*f) for one of the seven fractions f, and saves the one
\* "end" checkpoint with the final step count once the epoch is over; with
\* total = 100 the steps with a save are exactly 12, 25, 37, 50, 62, 75, 87
\* and 100.
C1_CheckpointSchedule ==
    ~args.inference =>
        /\ \A e \in 0 .. (args.epoch - 1) :
              /\ \A s \in StepsDone(e) :
                    (\E i \in MidSaves(e) : saved[i].step = s)
                        <=> (\E f \in Fractions : s = FractionStep(train_len, f))
              /\ \A i \in MidSaves(e) : saved[i].step \in StepsDone(e)
              /\ Cardinality(EndSaves(e)) = (IF EndDone(e) THEN 1 ELSE 0)
              /\ \A i \in EndSaves(e) : saved[i].step = train_len
        /\ (train_len = 100 /\ args.epoch = 1 /\ pc[Lead] = "done") =>
              {saved[i].step : i \in DOMAIN saved}
                  = {12, 25, 37, 50, 62, 75, 87, 100}

C1_Witness ==
    /\ train_len = 100
    /\ pc[Lead] = "done"
    /\ Len(saved) = 8
    /\ saved[1].step = 12
    /\ saved[8].tag = "end"


(***************************************************************************)
(* Scoring.                                                                *)
(***************************************************************************)
\* The process has scored every batch of its loader in the current pass.
PassScored(p) ==
    /\ args.inference
    /\ pc[p] \in {"barrier_326", "new_reduce"}

\* The examples of process p's loader that a case-insensitive comparison
\* counts for counter `key`.
CaseInsensitiveHits(p, key) ==
    LET exs == Flatten(val_loader[p])
    IN  {i \in DOMAIN exs :
            /\ exs[i].task = "classification"
            /\ SuffixScored(exs[i].temp_ids)
            /\ CounterKey(exs[i].temp_ids, exs[i].cate) = key
            /\ Lower(exs[i].pred) = Lower(exs[i].target_text)}

\* C2: a classification example with a template id ending in 2, 4, 6 or 7
\* whose predicted text equals its raw target text up to letter case (e.g.
\* prediction "yes", target "Yes") adds one to the counter
\* <template-id>-<category>.
C2_CaseInsensitiveMatch ==
    \A p \in Procs :
        PassScored(p) =>
            \A key \in DOMAIN ACC[p] :
                ACC[p][key] = Cardinality(CaseInsensitiveHits(p, key))

(***************************************************************************)
(* Gradient accumulation.                                                  *)
(***************************************************************************)
\* C3: within an epoch the optimizer step, the scheduler step and the
\* zeroing of gradients happen on the G-th, 2G-th, ... step counted from 1,
\* and every optimizer step applies exactly G backward passes.
C3_EveryGthStep ==
    \A p \in Procs :
        \A i \in DOMAIN optim_log[p] :
            /\ (optim_log[p][i].step_i + 1) % args.gradient_accumulation_steps = 0
            /\ optim_log[p][i].passes = args.gradient_accumulation_steps

(***************************************************************************)
(* Checkpoints written by train() and requested by test().                 *)
(***************************************************************************)
TrainCompleted ==
    \/ args.inference
    \/ \A p \in Procs : pc[p] = "done"

TagOrder == <<"mid1", "mid2", "mid3", "end">>

\* The 4*N slots of test(): slot j asks for epoch j \div 4 + 1, tag j % 4.
SlotsProduced ==
    \A j \in 0 .. (4 * args.epoch - 1) :
        \E i \in DOMAIN saved :
            /\ saved[i].path = <<"flan_pubmed", j \div 4 + 1, args.lr, 8,
                                 args.train, TagOrder[(j % 4) + 1]>>
            /\ saved[i].epoch + 1 = j \div 4 + 1
            /\ saved[i].tag = TagOrder[(j % 4) + 1]

RequestsProduced ==
    \A p \in Procs :
        \A k \in DOMAIN loaded[p] :
            /\ loaded[p][k] = <<"flan_pubmed", (k - 1) \div 4 + 1, args.lr, 8,
                                args.train, TagOrder[((k - 1) % 4) + 1]>>
            /\ \E i \in DOMAIN saved : saved[i].path = loaded[p][k]

\* C4 as stated: for every epoch length total >= 1, each of the 4*N files
\* test() loads was written under that name by the completed train() run.
C4_AllSlotsProduced ==
    (TrainCompleted /\ train_len >= 1) => (SlotsProduced /\ RequestsProduced)

\* C4 amended: for every epoch count N >= 1 and every epoch length
\* total >= 4, each of the 4*N files test() loads (mid1, mid2, mid3, end of
\* epochs 1..N) was written under exactly that name by the completed
\* train() run, and test() requests no file that train() did not write.
C4_SlotsProducedFromFour ==
    (TrainCompleted /\ train_len >= 4) => (SlotsProduced /\ RequestsProduced)

C4_Witness ==
    /\ args.inference
    /\ args.epoch = 2
    /\ train_len = 4
    /\ Len(loaded[Lead]) = 8
    /\ pc[Lead] = "done"

(***************************************************************************)
(* Reduction of the epoch's example count.                                 *)
(***************************************************************************)
TotalCount == <<"total", "_loss", "_count">>

\* The lead process holds the reduced results of its current epoch.
Reduced ==
    /\ ~args.inference
    /\ pc[Lead] \in {"barrier_273", "log", "barrier_293", "save_end", "barrier_299"}

RECURSIVE ExamplesConsumed(_, _, _)
ExamplesConsumed(p, e, n) ==
    IF n = 0 THEN 0
    ELSE Len(TrainBatch(p, e, n - 1)) + ExamplesConsumed(p, e, n - 1)

RECURSIVE SumProcs(_, _)
SumProcs(f, P) ==
    IF P = {} THEN 0
    ELSE LET p == CHOOSE q \in P : TRUE IN f[p] + SumProcs(f, P \ {p})

\* C5: after the epoch-end reduction the global total_loss_count is the sum
\* of the processes' local total_loss_count, which is the number of
\* examples in the batches the processes consumed in the epoch, whatever
\* the order in which the processes' counters are combined.
C5_SumReduce ==
    Reduced =>
        /\ results[Lead][TotalCount]
              = SumProcs([p \in Procs |-> epoch_results[p][TotalCount]], Procs)
        /\ \A p \in Procs :
              epoch_results[p][TotalCount]
                  = ExamplesConsumed(p, epoch[Lead], train_len)
        /\ \A order \in Orders :
              reduce_dict(epoch_results, order)[TotalCount] = results[Lead][TotalCount]

C5_Witness ==
    /\ Reduced
    /\ args.world_size = 2
    /\ train_len = 3
    /\ epoch[Lead] = 1
    /\ results[Lead][TotalCount] = 12

(***************************************************************************)
(* The evaluation report.                                                  *)
(***************************************************************************)
\* C7: test() visits the 4*N slots in the order epoch 1: mid1, mid2, mid3,
\* end; epoch 2: mid1, ...; for every slot the label line the lead process
\* appends names the epoch and the phase tag of the checkpoint file loaded
\* for that slot, and is followed by one line with the counters mapping and
\* one blank line.
C7_ReportFollowsSlots ==
    args.inference =>
        /\ Len(loaded[Lead]) <= 4 * args.epoch
        /\ pc[Lead] = "done" => Len(loaded[Lead]) = 4 * args.epoch
        /\ \A k \in DOMAIN loaded[Lead] :
              loaded[Lead][k] = <<"flan_pubmed", (k - 1) \div 4 + 1, args.lr, 8,
                                  args.train, TagOrder[((k - 1) % 4) + 1]>>
        /\ Len(acc_file) = 3 * Len(acc_by)
        /\ Len(acc_by) <= Len(loaded[Lead])
        /\ Len(acc_by) >= Len(loaded[Lead]) - 1
        /\ \A j \in DOMAIN acc_by :
              /\ acc_file[3 * j - 2] = <<loaded[Lead][j][2], "_" \o loaded[Lead][j][6]>>
              /\ Len(acc_file[3 * j - 1]) = 1
              /\ DOMAIN acc_file[3 * j - 1][1] = DOMAIN DeclaredCounters(val_list)
              /\ acc_file[3 * j] = << >>

C7_Witness ==
    /\ args.inference
    /\ args.epoch = 2
    /\ pc[Lead] = "done"
    /\ Len(acc_file) = 24
    /\ acc_file[22] = <<2, "_end">>

(***************************************************************************)
(* Lead-only writes.                                                       *)
(***************************************************************************)
\* C8: checkpoint files (mid-epoch and end-of-epoch) and report records are
\* written by the lead process only, in train() and in test().
C8_LeadOnlyWrites ==
    /\ \A i \in DOMAIN saved : saved[i].by = Lead
    /\ \A j \in DOMAIN acc_by : acc_by[j] = Lead

C8_Witness ==
    /\ args.world_size = 2
    /\ args.inference
    /\ pc[1] = "barrier_357"
    /\ Len(acc_by) > 0
    /\ \E i \in DOMAIN saved : saved[i].tag = "mid1"
    /\ \E i \in DOMAIN saved : saved[i].tag = "end"

(***************************************************************************)
(* Phase tags and step fractions.                                          *)
(***************************************************************************)
\* The seven fractions fall on seven different steps of the epoch.
FractionsDistinct ==
    /\ \A f \in Fractions : FractionStep(train_len, f) \in 1 .. train_len
    /\ \A f, g \in Fractions :
          f # g => FractionStep(train_len, f) # FractionStep(train_len, g)

EpochTags(e) ==
    LET mids == SelectSeq(saved, LAMBDA r : r.epoch = e /\ r.tag # "end")
    IN  [i \in DOMAIN mids |-> mids[i].tag]

\* C9 as stated: with seven distinct fraction steps, the checkpoints of an
\* epoch are written in the time order mmid1, mmid2, mmid3, mid1, mid2,
\* mid3, mend.
C9_TagsInNameOrder ==
    ~args.inference =>
        \A e \in 0 .. (args.epoch - 1) :
            (EndDone(e) /\ FractionsDistinct) =>
                EpochTags(e) = <<"mmid1", "mmid2", "mmid3", "mid1", "mid2", "mid3", "mend">>

TagFraction ==
    [t \in {"mmid1", "mid1", "mmid2", "mid2", "mmid3", "mid3", "mend"} |->
        CASE t = "mmid1" -> <<1, 8>>
          [] t = "mid1"  -> <<1, 4>>
          [] t = "mmid2" -> <<3, 8>>
          [] t = "mid2"  -> <<1, 2>>
          [] t = "mmid3" -> <<5, 8>>
          [] t = "mid3"  -> <<3, 4>>
          [] t = "mend"  -> <<7, 8>>]

\* C9 amended: the tags mmid1, mmid2, mmid3 are attached to the fractions
\* 1/8, 3/8, 5/8, the tags mid1, mid2, mid3 to 1/4, 1/2, 3/4 and mend to
\* 7/8; within an epoch whose seven fraction steps are distinct steps of
\* the epoch the checkpoints are written in the time order mmid1, mid1,
\* mmid2, mid2, mmid3, mid3, mend (so mid1 is written at 1/4 of the epoch
\* and mid2 at 1/2).
C9_TagsInterleaved ==
    ~args.inference =>
        /\ \A i \in DOMAIN saved :
              saved[i].tag # "end" =>
                  saved[i].step = FractionStep(train_len, TagFraction[saved[i].tag])
        /\ \A e \in 0 .. (args.epoch - 1) :
              (EndDone(e) /\ FractionsDistinct) =>
                  EpochTags(e) = <<"mmid1", "mid1", "mmid2", "mid2", "mmid3", "mid3", "mend">>

C9_Witness ==
    /\ ~args.inference
    /\ train_len = 8
    /\ EndDone(0)
    /\ FractionsDistinct
    /\ Len(EpochTags(0)) = 7

(***************************************************************************)
(* Progress of train().                                                    *)
(***************************************************************************)
\* C10: train() runs every configured epoch (training steps, reduction,
\* logging, end checkpoint): when the training run can take no further
\* step, the lead process has written the "end" checkpoint of every epoch
\* 1..N, and the last checkpoint written is the "end" checkpoint of epoch N.
C10_EveryEpochEnds ==
    (~args.inference /\ ~ENABLED NextTrain) =>
        /\ \A e \in 0 .. (args.epoch - 1) : Cardinality(EndSaves(e)) = 1
        /\ saved # << >>
        /\ saved[Len(saved)].tag = "end"
        /\ saved[Len(saved)].epoch = args.epoch - 1


(***************************************************************************)
(* Reduction of the evaluation counters.                                   *)
(***************************************************************************)
\* The lead process holds the reduced counters of the current slot.
CountersReduced ==
    /\ args.inference
    /\ pc[Lead] \in {"barrier_329", "normalize"}

\* The examples of the whole split whose prediction matches their target
\* for counter `key`.
SplitMatches(key) ==
    {i \in DOMAIN ValExamples :
        /\ Scores(ValExamples[i])
        /\ CounterKey(ValExamples[i].temp_ids, ValExamples[i].cate) = key}

\* C6: after an evaluation pass over a split in which exactly k example
\* predictions match their targets for template t and its category, the
\* reduced counter t-<category> equals k, for every disjoint, exhaustive
\* partition of the examples among the processes and every process count.
C6_PartitionIndependent ==
    CountersReduced =>
        \A key \in DOMAIN valid_results[Lead] :
            valid_results[Lead][key] = Cardinality(SplitMatches(key))

C6_Witness ==
    /\ CountersReduced
    /\ args.world_size = 3
    /\ \A p \in Procs : Len(val_loader[p]) = 1
    /\ valid_results[Lead][CounterKey(TemplateId("2","1","2","2"), transductive)] = 2

(***************************************************************************)
(* An inference run of one process over short splits drawn from every kind *)
(* of example: the scoring rule of evaluate_epoch, example by example.     *)
(***************************************************************************)
MaxScored == 3

ExInductiveMiss ==
    [task |-> "classification", temp_ids |-> TemplateId("2","1","2","2"),
     cate |-> <<"i","n","d">>, target_text |-> <<"n","o">>,
     pred |-> <<"y","e","s">>]

ScorePool == {ExHit, ExHit7, ExMiss, ExUpperTarget, ExOtherTemplate, ExLink,
              ExInductive, ExInductiveMiss}

InitScore ==
    /\ args \in [epoch : {1}, gradient_accumulation_steps : {1},
                 fp16 : {FALSE}, world_size : {1},
                 lr : {"lr"}, train : {"PubMed"}, inference : {TRUE}]
    /\ lr_scheduler = TRUE
    /\ train_len = 4
    /\ val_list = val_task_list
    /\ \E n \in 1 .. MaxScored :
          \E split \in [1 .. n -> ScorePool] :
             \E batch_size \in BatchSizes :
                val_loader = Loader(split, Strided(n, 1), batch_size, 1)
    /\ pc = [p \in Procs |-> "test_loop"]
    /\ saved = CompletedTrainSaves(args.epoch, train_len)
    /\ Fresh(args.world_size)

SpecScore == InitScore /\ [][NextTest]_vars

\* The examples process p has scored in the current pass.
Scored(p) == Flatten(SubSeq(val_loader[p], 1, step_i[p] + 1))

\* The batch process p scores next.
NextBatch(p) == val_loader[p][step_i[p] + 2]

\* p takes a scoring step of evaluate_epoch.
ScoringStep(p) == pc[p] = "eval_loop" /\ step_i'[p] = step_i[p] + 1

\* A classification example with a template id ending in 2, 4, 6 or 7 whose
\* predicted text equals the target text up to letter case.
Eligible(ex) ==
    /\ ex.task = "classification"
    /\ ex.temp_ids[Len(ex.temp_ids)] \in {"2", "4", "6", "7"}
    /\ Lower(ex.pred) = Lower(ex.target_text)

EligibleFor(batch, key) ==
    {i \in DOMAIN batch :
        Eligible(batch[i]) /\ CounterKey(batch[i].temp_ids, batch[i].cate) = key}

\* C11: scoring a batch leaves every counter as it was unless the batch holds
\* a matching classification example with a suffix-set template under that
\* counter's key, and then the counter grows by at most one per such example;
\* a batch of examples of another task or another template suffix only is
\* scored without an error and changes nothing.
C11_ScoringFrame ==
    [][\A p \in Procs :
          ScoringStep(p) =>
             /\ DOMAIN ACC'[p] = DOMAIN ACC[p]
             /\ \A key \in DOMAIN ACC[p] :
                   ACC'[p][key] - ACC[p][key]
                      \in 0 .. Cardinality(EligibleFor(NextBatch(p), key))
             /\ (\A i \in DOMAIN NextBatch(p) : ~Eligible(NextBatch(p)[i]))
                   => pc'[p] = "barrier_384" /\ ACC'[p] = ACC[p]]_vars

\* A pass that has scored a link example, an equal-text example of template
\* 2-1-2-1 and a matching example of template 2-1-2-2: only the last counts.
C11_Witness ==
    \E p \in Procs :
       /\ pc[p] = "barrier_384"
       /\ {ExLink, ExOtherTemplate, ExHit} \subseteq Range(Scored(p))
       /\ \A key \in DOMAIN ACC[p] :
             ACC[p][key] =
                (IF key = CounterKey(TemplateId("2","1","2","2"), transductive)
                 THEN 1 ELSE 0)

\* C12: every classification example a pass has scored whose key
\* <template-id>-<category> is not a declared counter has stopped the process
\* with a fatal error, whether or not its prediction matched, and the counter
\* keys are still exactly the keys declared at the start of the pass.
C12_UndeclaredKeyFatal ==
    \A p \in Procs :
       (args.inference /\ pc[p] \notin {"test_loop", "done"}) =>
          /\ DOMAIN ACC[p] = DOMAIN DeclaredCounters(val_list)
          /\ \A i \in DOMAIN Scored(p) :
                LET ex == Scored(p)[i]
                IN  (/\ ex.task = "classification"
                     /\ CounterKey(ex.temp_ids, ex.cate) \notin DOMAIN ACC[p])
                    => pc[p] = "crashed"

\* No process has raised.
NoFault == \A p \in Procs : pc[p] # "crashed"

\* Every process's loader holds the same number of batches (the training
\* loaders all hold train_len batches).
EqualBatches ==
    args.inference =>
       \A p, q \in Procs : Len(val_loader[p]) = Len(val_loader[q])

AtBarrier(p) == pc[p] \in DOMAIN AfterBarrier

\* C13: in a run without a fault and with equally many batches on every
\* process, any two processes waiting at a barrier wait at the same barrier
\* call of the same epoch (or slot) and step, lead or not, and the run can only
\* come to rest with every process returned from train() and test().
C13_BarrierSymmetry ==
    (NoFault /\ EqualBatches) =>
       /\ \A p, q \in Procs :
             (AtBarrier(p) /\ AtBarrier(q)) =>
                /\ pc[p] = pc[q]
                /\ epoch[p] = epoch[q]
                /\ step_i[p] = step_i[q]
       /\ (~ENABLED Next) => \A p \in Procs : args.inference /\ pc[p] = "done"

\* Two processes have both returned from train() and then from test().
C13_Witness ==
    /\ args.world_size = 2
    /\ args.inference
    /\ NoFault /\ EqualBatches
    /\ \A p \in Procs : pc[p] = "done" /\ Len(loaded[p]) = 4 * args.epoch
    /\ Len(acc_by) = 4 * args.epoch

\* Process q has completed the metric reduction of epoch k (line 271).
ReducedEpoch(q, k) ==
    \/ epoch[q] > k
    \/ /\ epoch[q] = k
       /\ pc[q] \in {"barrier_273", "log", "barrier_293", "save_end",
                     "barrier_299", "epoch_loop", "done"}

\* The lead process has written the 'end' checkpoint of epoch k.
EndWritten(k) ==
    \E i \in DOMAIN saved :
       saved[i].epoch = k /\ saved[i].tag = "end" /\ saved[i].by = Lead

\* C14: once a process is in a training step of epoch k+1, every process has
\* completed the metric reduction of epoch k and the lead process has written
\* epoch k's 'end' checkpoint.
C14_EpochGate ==
    \A p \in Procs :
       (~args.inference /\ epoch[p] >= 1 /\ step_i[p] >= 0) =>
          /\ \A q \in Procs : ReducedEpoch(q, epoch[p] - 1)
          /\ EndWritten(epoch[p] - 1)

\* A non-lead process is in the first step of the second epoch.
C14_Witness ==
    \E p \in Procs :
       /\ ~verbose(p)
       /\ ~args.inference
       /\ epoch[p] = 1 /\ step_i[p] = 0 /\ pc[p] = "barrier_125"
       /\ \A q \in Procs : ReducedEpoch(q, 0)
       /\ EndWritten(0)

\* C15: once a process has raised, no process ever returns from train() or
\* test(); with equally many batches per process the run comes to rest with
\* every surviving process waiting at a barrier that is never released.
C15_CrashHangsOthers ==
    (\E p \in Procs : pc[p] = "crashed") =>
       /\ \A q \in Procs : pc[q] # "done"
       /\ (~ENABLED Next /\ EqualBatches) =>
             \A q \in Procs : pc[q] = "crashed" \/ AtBarrier(q)

\* One process raised KeyError while scoring; another, which did not raise,
\* waits at the barrier of the scoring loop and nothing can move.
C15_Witness ==
    /\ ~ENABLED Next
    /\ EqualBatches
    /\ \E p, q \in Procs :
          /\ pc[p] = "crashed"
          /\ step_i[p] >= 0
          /\ pc[q] = "barrier_384"

\* Process p has raised at line 280, dividing by a zero reduced count.
DividedByZeroCount(p) ==
    /\ ~args.inference
    /\ pc[p] = "crashed"
    /\ TotalCount \in DOMAIN results[p]
    /\ results[p][TotalCount] = 0

\* C16: every count in the epoch results is non-negative, every average in
\* the epoch summary (the overall train loss and each per-task loss) was
\* computed by dividing by a positive reduced count, and no process has
\* divided by a reduced count of zero.
C16_AverageOnlyIfCounted ==
    \A p \in Procs :
       /\ \A k \in DOMAIN epoch_results[p] :
             EndsWith(k, <<"_count">>) => epoch_results[p][k] >= 0
       /\ \A i \in DOMAIN losses_str[p] : losses_str[p][i][3] > 0
       /\ ~DividedByZeroCount(p)

\* C17: a process that has gone past the forward position of a training step,
\* with or without the mixed-precision flag, has not raised and holds that
\* step's losses computed from the step's own batch, which the backward pass
\* then uses.
C17_ForwardRunsUnderFp16 ==
    \A p \in Procs :
       (/\ ~args.inference
        /\ step_i[p] >= 0
        /\ pc[p] \in {"barrier_175", "backward", "barrier_234", "accumulate",
                      "barrier_264", "train_loop", "crashed"})
       => /\ pc[p] # "crashed"
          /\ results[p] = StepResults(TrainBatch(p, epoch[p], step_i[p]))

\* The records of epoch e written under phase tag t.
TagSaves(e, t) == {i \in MidSaves(e) : saved[i].tag = t}

\* C18: when two different phase tags have fractions that floor to the same
\* step s of the epoch, then once the lead process has completed step s the
\* epoch has one checkpoint for each of the two tags, both written at step s,
\* each under the file name of its own tag, and the two names differ.
C18_CollidingTagsAllWritten ==
    ~args.inference =>
        \A e \in 0 .. (args.epoch - 1) :
           \A s \in StepsDone(e) :
              \A t1, t2 \in DOMAIN TagFraction :
                 (/\ t1 # t2
                  /\ FractionStep(train_len, TagFraction[t1]) = s
                  /\ FractionStep(train_len, TagFraction[t2]) = s)
                 => /\ Cardinality(TagSaves(e, t1)) = 1
                    /\ Cardinality(TagSaves(e, t2)) = 1
                    /\ \E i \in TagSaves(e, t1), j \in TagSaves(e, t2) :
                          /\ saved[i].step = s /\ saved[j].step = s
                          /\ saved[i].path = CkptName(e + 1, t1)
                          /\ saved[j].path = CkptName(e + 1, t2)
                          /\ saved[i].path # saved[j].path

\* An epoch of four steps: 1/4 and 3/8 both floor to step 1, and after that
\* step the epoch has the mid1 and the mmid2 checkpoint.
C18_Witness ==
    /\ ~args.inference
    /\ train_len = 4
    /\ global_step[Lead] = 1 /\ epoch[Lead] = 0
    /\ FractionStep(train_len, TagFraction["mid1"])
          = FractionStep(train_len, TagFraction["mmid2"])
    /\ \E i \in TagSaves(0, "mid1"), j \in TagSaves(0, "mmid2") :
          saved[i].step = 1 /\ saved[j].step = 1 /\ saved[i].path # saved[j].path

\* The number of steps of the current epoch process p has merged into its
\* epoch results.
MergedSteps(p) ==
    IF \/ pc[p] \in {"barrier_125", "forward", "barrier_175", "backward",
                     "barrier_234", "accumulate"}
       \/ pc[p] = "crashed" /\ ~DividedByZeroCount(p)
    THEN step_i[p]
    ELSE step_i[p] + 1

\* What step i of epoch e on process p yields for entry k: nothing when the
\* step's results have no such entry.
StepValue(r, k) == IF k \in DOMAIN r THEN r[k] ELSE 0

\* Entry by entry, the sums of the values of steps 0 .. n-1 of epoch e on
\* process p.
RECURSIVE StepSum(_, _, _)
StepSum(p, e, n) ==
    IF n = 0 THEN [k \in DOMAIN FreshEpochResults |-> 0]
    ELSE LET before == StepSum(p, e, n - 1)
             r == StepResults(TrainBatch(p, e, n - 1))
         IN  [k \in DOMAIN before |-> before[k] + StepValue(r, k)]

\* C19: in every epoch the epoch results hold exactly the declared loss names
\* and their counts, and after n merged steps each entry equals the sum of
\* the n per-step values of this epoch alone (zero before the first step; a
\* task absent from a batch adds nothing; nothing of an earlier epoch remains).
C19_EpochResultsAreStepSums ==
    \A p \in Procs :
       (~args.inference /\ epoch[p] >= 0) =>
          /\ DOMAIN epoch_results[p] = DOMAIN FreshEpochResults
          /\ epoch_results[p] = StepSum(p, epoch[p], MergedSteps(p))

\* A process in its second epoch has merged two steps, one of them a batch
\* without classification examples.
C19_Witness ==
    \E p \in Procs :
       /\ ~args.inference
       /\ epoch[p] = 1
       /\ pc[p] = "train_loop"
       /\ MergedSteps(p) = 2
       /\ \E i \in 0 .. 1 : TaskIdx(TrainBatch(p, 1, i), "classification") = {}
       /\ \E i \in 0 .. 1 : TaskIdx(TrainBatch(p, 1, i), "classification") # {}
       /\ epoch_results[p][<<"total", "_loss", "_count">>] > 0

\* C20: every optimizer step a process has taken, in any epoch, applied the
\* gradients of at least one and at most gradient_accumulation_steps backward
\* passes (the passes left over at the end of an epoch are applied by step 0
\* of the next), and the learning-rate scheduler, when the trainer has one,
\* has been stepped once for each optimizer step and never otherwise.
C20_AccumulationBounded ==
    \A p \in Procs :
       /\ \A i \in DOMAIN optim_log[p] :
             optim_log[p][i].passes \in 1 .. args.gradient_accumulation_steps
       /\ sched_steps[p] = (IF lr_scheduler THEN Len(optim_log[p]) ELSE 0)

\* Step 0 of the second epoch applies a full window of passes, one of its own
\* and the rest left over from the first epoch, and steps the scheduler.
C20_Witness ==
    \E p \in Procs :
       /\ lr_scheduler
       /\ args.gradient_accumulation_steps > 1
       /\ \E i \in DOMAIN optim_log[p] :
             /\ optim_log[p][i].epoch = 1
             /\ optim_log[p][i].step_i = 0
             /\ optim_log[p][i].passes = args.gradient_accumulation_steps
       /\ sched_steps[p] = Len(optim_log[p])

==============================================================================
